---- MODULE Spec2Model ----
(***************************************************************************)
(* DQNAgent (distractors_benchmark/agent.py): the constructor that wires a *)
(* replay table, adder, dataset, Q-network, target network, actor, learner *)
(* and checkpointer together, and the update() override.                   *)
(*                                                                         *)
(* Python values are tagged tuples: <<"None">> is None, <<"Kind", fields>> *)
(* is an object of class Kind.  Network modules and their tf.Variables     *)
(* live in a heap so that identity and aliasing are observable.            *)
(* Opaque float hyperparameters are carried as their decimal literals.     *)
(***************************************************************************)
EXTENDS Integers, Sequences, FiniteSets, TLC

VARIABLES
  args,            \* the constructor's keyword arguments, as the caller gave them
  seed,            \* the initializer seed the framework draws parameters from
  pc,              \* position in __init__ ("ready" once it has returned)
  heap,            \* object store: network modules and tf.Variables
  replay_table,    \* reverb.Table
  server,          \* self._server
  adder,           \* adders.NStepTransitionAdder
  dataset,         \* datasets.make_reverb_dataset(...)
  replay_client,   \* reverb.TFClient(address)
  network,         \* self.network
  epsilon,         \* the local epsilon (argument, rebound at line 133)
  policy_network,  \* the local policy_network (argument, rebound at line 134)
  target_network,  \* copy.deepcopy(self.network)
  actor,           \* actors.FeedForwardActor
  dqn_learner,     \* learner(...)
  checkpointer,    \* self._checkpointer
  agent,           \* what super().__init__ received
  calls            \* framework calls made so far, in program order

vars == <<args, seed, pc, heap, replay_table, server, adder, dataset,
          replay_client, network,
          epsilon, policy_network, target_network, actor, dqn_learner,
          checkpointer, agent, calls>>

----------------------------------------------------------------------------
(* Bounds of the model *)

MaxUpdates == 2      \* update() calls explored after construction
MaxParam == 1        \* parameter values are 0..MaxParam
MaxSeed == 7         \* initializer seeds 0..MaxSeed
MaxBatch == 15       \* batch_size ranges over 1..MaxBatch and the default
MaxSpi == 11         \* samples_per_insert numerators 1..MaxSpi and the default
MaxShift == 1        \* samples_per_insert = numerator / 2^shift, shift 0..MaxShift
MaxVaried == 3       \* hyperparameters changed from their defaults at once

(* Program constants *)

DefaultBatchSize == 256
DefaultMinReplaySize == 1000
DefaultSamplesPerInsert == 32
DefaultEpsilon == 5               \* 0.05, in hundredths
MinSizeToSample == 1              \* reverb.rate_limiters.MinSize(1)
TimeDeltaMinutes == 60
Precision == 53                   \* significand bits of a Python float

----------------------------------------------------------------------------
(* Python values *)

PyNone == <<"None">>
Unset == <<"unset">>
Obj(kind, fields) == <<kind, fields>>
IsNone(v) == v[1] = "None"
IsObj(v, kind) == v[1] = kind
Fields(v) == v[2]

\* Python truthiness of a str-or-None value
Truthy(v) == ~IsNone(v) /\ Fields(v) # ""

Max(a, b) == IF a >= b THEN a ELSE b
Min(a, b) == IF a <= b THEN a ELSE b

----------------------------------------------------------------------------
(* Python floats: binary64 with round-to-nearest-even.  A positive float   *)
(* is [mant, exp]: Precision bits, most significant first, mant[1] = 1,    *)
(* worth mant[1]*2^exp + mant[2]*2^(exp-1) + ...                           *)

RECURSIVE Bits(_)
Bits(n) == IF n = 0 THEN <<>> ELSE Append(Bits(n \div 2), n % 2)

RECURSIVE Zeros(_)
Zeros(k) == IF k <= 0 THEN <<>> ELSE <<0>> \o Zeros(k - 1)

RECURSIVE AnySet(_)
AnySet(b) == IF b = <<>> THEN FALSE ELSE Head(b) = 1 \/ AnySet(Tail(b))

\* b + 1 and b - 1 on bit strings, from the last bit up; acc is the part done
RECURSIVE IncFrom(_, _, _, _)
IncFrom(b, i, carry, acc) ==
  IF i = 0 THEN [bits |-> acc, carry |-> carry]
  ELSE IncFrom(b, i - 1, (b[i] + carry) \div 2, <<(b[i] + carry) % 2>> \o acc)

IncBits(b) == IncFrom(b, Len(b), 1, <<>>)

RECURSIVE DecFrom(_, _, _, _)
DecFrom(b, i, borrow, acc) ==
  IF i = 0 THEN [bits |-> acc, borrow |-> borrow]
  ELSE DecFrom(b, i - 1, IF b[i] - borrow < 0 THEN 1 ELSE 0,
               <<(b[i] - borrow) % 2>> \o acc)

DecBits(b) == DecFrom(b, Len(b), 1, <<>>)

\* Round a bit string whose leading 1 is worth 2^exp to Precision bits;
\* sticky says that non-zero bits follow the string.
RoundBits(b, exp, sticky) ==
  IF Len(b) <= Precision
  THEN [mant |-> b \o Zeros(Precision - Len(b)), exp |-> exp]
  ELSE LET head == SubSeq(b, 1, Precision)
           guard == b[Precision + 1]
           rest == sticky \/ AnySet(SubSeq(b, Precision + 2, Len(b)))
           up == guard = 1 /\ (rest \/ head[Precision] = 1)
           inc == IncBits(head)
       IN IF ~up THEN [mant |-> head, exp |-> exp]
          ELSE IF inc.carry = 1
               THEN [mant |-> <<1>> \o Zeros(Precision - 1), exp |-> exp + 1]
               ELSE [mant |-> inc.bits, exp |-> exp]

\* float(n) for an int n >= 1
FromInt(n) == RoundBits(Bits(n), Len(Bits(n)) - 1, FALSE)

\* samples_per_insert values: the float num / 2^shift
SpiValue(num, shift) == [num |-> num, shift |-> shift]

RECURSIVE Normalize(_, _, _)
Normalize(b, n, t) ==
  IF b < n THEN Normalize(2 * b, n, t - 1)
  ELSE IF b >= 2 * n THEN Normalize(b, 2 * n, t + 1)
  ELSE [b |-> b, n |-> n, t |-> t]

\* long division: k more quotient bits of r / n, after the bits in acc
RECURSIVE QuotientBits(_, _, _, _)
QuotientBits(r, n, k, acc) ==
  IF k = 0 THEN [bits |-> acc, rem |-> r]
  ELSE IF r >= n THEN QuotientBits(2 * (r - n), n, k - 1, Append(acc, 1))
  ELSE QuotientBits(2 * r, n, k - 1, Append(acc, 0))

\* float(b) / s, correctly rounded
FloatDiv(b, s) ==
  LET nz == Normalize(b, s.num, 0)
      q == QuotientBits(nz.b, nz.n, Precision + 1, <<>>)
  IN RoundBits(q.bits, nz.t + s.shift, q.rem # 0)

\* b * n on a bit string, from the last bit up
RECURSIVE MulFrom(_, _, _, _, _)
MulFrom(b, n, i, carry, acc) ==
  IF i = 0 THEN [bits |-> acc, carry |-> carry]
  ELSE MulFrom(b, n, i - 1, (b[i] * n + carry) \div 2,
               <<(b[i] * n + carry) % 2>> \o acc)

MulBits(b, n) == MulFrom(b, n, Len(b), 0, <<>>)

\* x * s, correctly rounded
FloatMul(x, s) ==
  LET p == MulBits(x.mant, s.num)
      hi == Bits(p.carry)
  IN RoundBits(hi \o p.bits, x.exp + Len(hi) - s.shift, FALSE)

\* the neighbouring floats
FloatSucc(x) ==
  LET inc == IncBits(x.mant)
  IN IF inc.carry = 1
     THEN [mant |-> <<1>> \o Zeros(Precision - 1), exp |-> x.exp + 1]
     ELSE [mant |-> inc.bits, exp |-> x.exp]

FloatPred(x) ==
  LET dec == DecBits(x.mant)
  IN IF dec.bits[1] = 0
     THEN [mant |-> <<1>> \o Tail(dec.bits), exp |-> x.exp - 1]
     ELSE [mant |-> dec.bits, exp |-> x.exp]

\* b / s is a float exactly: the quotient's bits end within Precision
ExactQuotient(b, s) ==
  LET nz == Normalize(b, s.num, 0)
  IN QuotientBits(nz.b, nz.n, Precision, <<>>).rem = 0

----------------------------------------------------------------------------
(* The constructor's arguments *)

DefaultArgs ==
  [ learner |-> "learner_cls",
    wandb |-> Obj("wandb", "run"),
    environment_spec |-> "environment_spec",
    encoder_type |-> Obj("str", "mlp"),
    encoder_feature_dim |-> 6,
    projection_feature_dim |-> 6,
    batch_size |-> DefaultBatchSize,
    prefetch_size |-> 4,
    target_update_period |-> 100,
    samples_per_insert |-> SpiValue(DefaultSamplesPerInsert, 0),
    min_replay_size |-> DefaultMinReplaySize,
    max_replay_size |-> 1000000,
    importance_sampling_exponent |-> "0.2",
    priority_exponent |-> "0.6",
    n_step |-> 5,
    epsilon |-> PyNone,
    learning_rate |-> "1e-3",
    discount |-> "0.99",
    logger |-> PyNone,
    checkpoint |-> TRUE,
    checkpoint_subpath |-> "~/acme/",
    policy_network |-> PyNone,
    beta |-> PyNone ]

\* a second value for each hyperparameter that is handed on to the framework
AltArgs ==
  [ DefaultArgs EXCEPT
      !.wandb = PyNone,
      !.batch_size = 64,
      !.prefetch_size = 2,
      !.target_update_period = 50,
      !.max_replay_size = 500,
      !.importance_sampling_exponent = "0.4",
      !.priority_exponent = "1.0",
      !.n_step = 1,
      !.learning_rate = "1e-4",
      !.discount = "0.9",
      !.logger = Obj("Logger", "terminal"),
      !.checkpoint = FALSE,
      !.beta = Obj("float", "0.5") ]

ConfigFields ==
  { "priority_exponent", "max_replay_size", "n_step", "discount", "batch_size",
    "prefetch_size", "importance_sampling_exponent", "learning_rate",
    "target_update_period", "logger", "checkpoint", "wandb", "beta" }

EncoderTypes == { Obj("str", "mlp"), Obj("str", ""), PyNone }
PolicyNetworks == { PyNone, Obj("Module", "given_policy") }
Epsilons == { PyNone, Obj("Tensor", 0), Obj("Tensor", 10) }   \* hundredths

\* wiring: which objects are built and how they are connected
WiringArgs ==
  { [ DefaultArgs EXCEPT !.encoder_type = et, !.checkpoint = cp,
                         !.policy_network = pn, !.epsilon = eps ] :
      et \in EncoderTypes, cp \in BOOLEAN, pn \in PolicyNetworks, eps \in Epsilons }

\* hyperparameters: every set of up to MaxVaried of them takes its second value
ConfigArgs ==
  { [ f \in DOMAIN DefaultArgs |-> IF f \in S THEN AltArgs[f] ELSE DefaultArgs[f] ] :
      S \in { T \in SUBSET ConfigFields : Cardinality(T) <= MaxVaried } }

BatchSizes == (1 .. MaxBatch) \cup {DefaultBatchSize}
MinReplaySizes == {MaxBatch \div 2, DefaultMinReplaySize}
\* odd numerators (an even one is an odd one with another shift) and the default
SamplesPerInsert ==
  { SpiValue(n, k) :
      n \in { m \in 1 .. MaxSpi : m % 2 = 1 } \cup {DefaultSamplesPerInsert},
      k \in 0 .. MaxShift }

\* sizes: the arguments the agent's pacing is computed from
NumericArgs ==
  { [ DefaultArgs EXCEPT !.batch_size = b, !.min_replay_size = m,
                         !.samples_per_insert = s ] :
      b \in BatchSizes, m \in MinReplaySizes, s \in SamplesPerInsert }

----------------------------------------------------------------------------
(* The heap: network modules and the tf.Variables holding their parameters *)

Components == <<"net", "decoder", "projector">>
ComponentSet == {"net", "decoder", "projector"}
NoRefs == [c \in ComponentSet |-> 0]
ParamBase == MaxParam + 1

RECURSIVE Power(_, _)
Power(b, n) == IF n = 0 THEN 1 ELSE b * Power(b, n - 1)

IndexOf(seq, x) == CHOOSE i \in 1 .. Len(seq) : seq[i] = x

\* the value the initializer gives a component's parameters
InitialValue(sd, c) == (sd \div Power(ParamBase, IndexOf(Components, c) - 1)) % ParamBase

\* QNetworkWithEncoder(...): a module whose variables do not exist yet
NewNetwork(h) ==
  Append(h, [kind |-> "QNetworkWithEncoder", val |-> 0, refs |-> NoRefs])

\* the component whose variables the network's own forward pass builds; the
\* decoder and the projector are built by the calls made on them
ForwardPassComponent == "net"

\* tf2_utils.create_variables on component c of module id
CreateVariables(h, id, c, sd) ==
  IF h[id].refs[c] # 0 THEN h
  ELSE Append([h EXCEPT ![id].refs[c] = Len(h) + 1],
              [kind |-> "Variable", val |-> InitialValue(sd, c), refs |-> NoRefs])

\* copy.copy: a new module sharing the original's variables
ShallowCopy(h, id) == Append(h, h[id])

\* copy.deepcopy: a new module (the last object of the result) with a new
\* variable for each variable of the original
DeepCopy(h, id) ==
  LET src == h[id]
      made == SelectSeq(Components, LAMBDA c : src.refs[c] # 0)
      copies == [i \in 1 .. Len(made) |-> h[src.refs[made[i]]]]
      refs == [c \in ComponentSet |->
                 IF src.refs[c] = 0 THEN 0 ELSE Len(h) + IndexOf(made, c)]
  IN (h \o copies) \o <<[kind |-> src.kind, val |-> src.val, refs |-> refs]>>

\* ids of the variables a module holds
VariablesOf(h, id) == { h[id].refs[c] : c \in ComponentSet } \ {0}

\* parameter values of a module, per component (-1: not created)
ParamsOf(h, id) ==
  [c \in ComponentSet |-> IF h[id].refs[c] = 0 THEN -1 ELSE h[h[id].refs[c]].val]

\* one learner step: the optimizer writes the variables of the network it holds
LearnerStep(h, id) ==
  [i \in 1 .. Len(h) |->
     IF i \in VariablesOf(h, id)
     THEN [h[i] EXCEPT !.val = (h[i].val + 1) % ParamBase]
     ELSE h[i]]

----------------------------------------------------------------------------
(* What __init__ builds, as functions of its arguments *)

Address == "localhost:port"

\* reverb.rate_limiters.MinSize(1)
RateLimiterForMinReplay(a) == Obj("MinSize", [min_size_to_sample |-> a.min_replay_size])
RateLimiter(a) == Obj("MinSize", [min_size_to_sample |-> MinSizeToSample])

ReplayTable(a) ==
  Obj("Table",
      [ name |-> "priority_table",
        sampler |-> Obj("Prioritized", [priority_exponent |-> a.priority_exponent]),
        remover |-> Obj("Fifo", "fifo"),
        max_size |-> a.max_replay_size,
        rate_limiter |-> RateLimiter(a),
        signature |-> a.environment_spec ])

Adder(a) ==
  Obj("NStepTransitionAdder",
      [client |-> Address, n_step |-> a.n_step, discount |-> a.discount])

Dataset(a) ==
  Obj("ReverbDataset",
      [ server_address |-> Address, batch_size |-> a.batch_size,
        prefetch_size |-> a.prefetch_size ])

\* "epsilon is None" / "epsilon is falsy"
EpsilonOrDefaultIfFalsy(eps) ==
  IF IsNone(eps) \/ Fields(eps) = 0 THEN Obj("Variable", DefaultEpsilon) ELSE eps
EpsilonOrDefault(eps) ==
  IF IsNone(eps) THEN Obj("Variable", DefaultEpsilon) ELSE eps

\* snt.Sequential([self.network, lambda q: epsilon_greedy(q, epsilon).sample()])
EpsilonGreedyPolicy(net, eps) ==
  Obj("Sequential", [network |-> net, epsilon |-> Fields(eps)])

\* "if encoder_type:"
ProjectorAlways(et) == TRUE
ProjectorWanted(et) == Truthy(et)

\* the target network: copy.deepcopy(self.network)
TargetCopyShallow(h, id) == ShallowCopy(h, id)
TargetCopy(h, id) == DeepCopy(h, id)

\* the network handed to the learner: "network=self.network"
LearnerNetworkIsTarget(net, tgt) == tgt
LearnerNetwork(net, tgt) == net

LearnerKwargsDiscountSwapped(a, net, tgt, ds, rc) ==
  [ network |-> net, target_network |-> tgt,
    discount |-> a.learning_rate,
    importance_sampling_exponent |-> a.importance_sampling_exponent,
    learning_rate |-> a.discount,
    target_update_period |-> a.target_update_period,
    dataset |-> ds, replay_client |-> rc, logger |-> a.logger,
    checkpoint |-> a.checkpoint, wandb |-> a.wandb, beta |-> a.beta ]
LearnerKwargs(a, net, tgt, ds, rc) ==
  [ network |-> net, target_network |-> tgt,
    discount |-> a.discount,
    importance_sampling_exponent |-> a.importance_sampling_exponent,
    learning_rate |-> a.learning_rate,
    target_update_period |-> a.target_update_period,
    dataset |-> ds, replay_client |-> rc, logger |-> a.logger,
    checkpoint |-> a.checkpoint, wandb |-> a.wandb, beta |-> a.beta ]

CheckpointerObject(a) ==
  Obj("Checkpointer",
      [ directory |-> a.checkpoint_subpath,
        objects_to_save |-> "dqn_learner.state",
        subdirectory |-> "dqn_learner",
        time_delta_minutes |-> TimeDeltaMinutes ])

\* "if checkpoint: ... else: self._checkpointer = None"
MakeCheckpointerAlways(a) == CheckpointerObject(a)
MakeCheckpointer(a) == IF a.checkpoint THEN CheckpointerObject(a) ELSE PyNone

\* max(batch_size, min_replay_size)
MinObservationsAsMin(a) == Min(a.batch_size, a.min_replay_size)
MinObservations(a) == Max(a.batch_size, a.min_replay_size)

\* float(batch_size) / samples_per_insert
ObservationsPerStepFloored(a) ==
  LET n == (a.batch_size * Power(2, a.samples_per_insert.shift))
             \div a.samples_per_insert.num
  IN FromInt(Max(n, 1))
ObservationsPerStep(a) == FloatDiv(a.batch_size, a.samples_per_insert)

----------------------------------------------------------------------------
(* update(): the calls it makes, given how the base update and the save end *)

BaseOutcomes == {"raise", "idle", "step"}
SaveOutcomes == {"ok", "raise"}

UpdateCallsSaveFirst(cp, base, save) ==
  <<"update">>
    \o (IF IsNone(cp) THEN <<>> ELSE <<IF save = "ok" THEN "save" ELSE "save!">>)
    \o (IF ~IsNone(cp) /\ save # "ok" THEN <<>>
        ELSE IF base = "raise" THEN <<"Agent.update!">>
        ELSE <<"Agent.update", "return">>)
UpdateCalls(cp, base, save) ==
  <<"update">>
    \o (IF base = "raise" THEN <<"Agent.update!">>
        ELSE <<"Agent.update">>
               \o (IF IsNone(cp) THEN <<"return">>
                   ELSE IF save = "ok" THEN <<"save", "return">>
                   ELSE <<"save!">>))

Count(log, S) == Cardinality({ i \in 1 .. Len(log) : log[i] \in S })

----------------------------------------------------------------------------
(* The state machine *)

InitWith(A, Seeds) ==
  /\ args \in A
  /\ seed \in Seeds
  /\ pc = "replay_table"
  /\ heap = <<>>
  /\ replay_table = Unset
  /\ server = Unset
  /\ adder = Unset
  /\ dataset = Unset
  /\ replay_client = Unset
  /\ network = 0
  /\ epsilon = args.epsilon
  /\ policy_network = args.policy_network
  /\ target_network = 0
  /\ actor = Unset
  /\ dqn_learner = Unset
  /\ checkpointer = Unset
  /\ agent = Unset
  /\ calls = <<>>

Init == InitWith(WiringArgs, 0 .. MaxSeed)
InitConfig == InitWith(ConfigArgs, {0})
InitNumeric == InitWith(NumericArgs, {0})

\* lines 98-105
BuildReplayTable ==
  /\ pc = "replay_table"
  /\ replay_table' = ReplayTable(args)
  /\ calls' = Append(calls, "Table")
  /\ pc' = "server"
  /\ UNCHANGED <<args, seed, heap, server, adder, dataset, replay_client, network,
                 epsilon, policy_network, target_network, actor, dqn_learner,
                 checkpointer, agent>>

\* line 106
StartServer ==
  /\ pc = "server"
  /\ server' = Obj("Server", [tables |-> <<replay_table>>, port |-> "port"])
  /\ calls' = Append(calls, "Server")
  /\ pc' = "adder"
  /\ UNCHANGED <<args, seed, heap, replay_table, adder, dataset, replay_client,
                 network, epsilon, policy_network, target_network, actor,
                 dqn_learner, checkpointer, agent>>

\* lines 109-112
BuildAdder ==
  /\ pc = "adder"
  /\ adder' = Adder(args)
  /\ calls' = Append(calls, "NStepTransitionAdder")
  /\ pc' = "dataset"
  /\ UNCHANGED <<args, seed, heap, replay_table, server, dataset, replay_client,
                 network, epsilon, policy_network, target_network, actor,
                 dqn_learner, checkpointer, agent>>

\* lines 115-118
BuildDataset ==
  /\ pc = "dataset"
  /\ replay_client' = Obj("TFClient", [address |-> Address])
  /\ dataset' = Dataset(args)
  /\ calls' = calls \o <<"TFClient", "make_reverb_dataset">>
  /\ pc' = "network"
  /\ UNCHANGED <<args, seed, heap, replay_table, server, adder, network, epsilon,
                 policy_network, target_network, actor, dqn_learner, checkpointer,
                 agent>>

\* lines 121-127
BuildNetwork ==
  /\ pc = "network"
  /\ heap' = NewNetwork(heap)
  /\ network' = Len(heap')
  /\ calls' = Append(calls, "QNetworkWithEncoder")
  /\ pc' = "policy"
  /\ UNCHANGED <<args, seed, replay_table, server, adder, dataset, replay_client,
                 epsilon, policy_network, target_network, actor, dqn_learner,
                 checkpointer, agent>>

\* lines 130-139
BuildPolicy ==
  /\ pc = "policy"
  /\ IF IsNone(policy_network)
     THEN /\ epsilon' = EpsilonOrDefault(epsilon)
          /\ policy_network' = EpsilonGreedyPolicy(network, epsilon')
          /\ calls' = Append(calls, "Sequential")
     ELSE UNCHANGED <<epsilon, policy_network, calls>>
  /\ pc' = "create_network"
  /\ UNCHANGED <<args, seed, heap, replay_table, server, adder, dataset,
                 replay_client, network, target_network, actor, dqn_learner,
                 checkpointer, agent>>

\* line 141
CreateNetworkVariables ==
  /\ pc = "create_network"
  /\ heap' = CreateVariables(heap, network, ForwardPassComponent, seed)
  /\ calls' = Append(calls, "create_variables:net")
  /\ pc' = "create_decoder"
  /\ UNCHANGED <<args, seed, replay_table, server, adder, dataset, replay_client,
                 network, epsilon, policy_network, target_network, actor,
                 dqn_learner, checkpointer, agent>>

\* lines 142-145
CreateDecoderVariables ==
  /\ pc = "create_decoder"
  /\ heap' = CreateVariables(heap, network, "decoder", seed)
  /\ calls' = calls \o <<"encoding_spec", "create_variables:decoder">>
  /\ pc' = "create_projector"
  /\ UNCHANGED <<args, seed, replay_table, server, adder, dataset, replay_client,
                 network, epsilon, policy_network, target_network, actor,
                 dqn_learner, checkpointer, agent>>

\* lines 146-150
CreateProjectorVariables ==
  /\ pc = "create_projector"
  /\ IF ProjectorWanted(args.encoder_type)
     THEN /\ heap' = CreateVariables(heap, network, "projector", seed)
          /\ calls' = calls \o <<"encoding_spec", "create_variables:projector">>
     ELSE UNCHANGED <<heap, calls>>
  /\ pc' = "target_network"
  /\ UNCHANGED <<args, seed, replay_table, server, adder, dataset, replay_client,
                 network, epsilon, policy_network, target_network, actor,
                 dqn_learner, checkpointer, agent>>

\* line 153
CopyTargetNetwork ==
  /\ pc = "target_network"
  /\ heap' = TargetCopy(heap, network)
  /\ target_network' = Len(heap')
  /\ calls' = Append(calls, "deepcopy")
  /\ pc' = "actor"
  /\ UNCHANGED <<args, seed, replay_table, server, adder, dataset, replay_client,
                 network, epsilon, policy_network, actor, dqn_learner,
                 checkpointer, agent>>

\* line 156
BuildActor ==
  /\ pc = "actor"
  /\ actor' = Obj("FeedForwardActor", [policy_network |-> policy_network, adder |-> adder])
  /\ calls' = Append(calls, "FeedForwardActor")
  /\ pc' = "learner"
  /\ UNCHANGED <<args, seed, heap, replay_table, server, adder, dataset,
                 replay_client, network, epsilon, policy_network, target_network,
                 dqn_learner, checkpointer, agent>>

\* lines 159-172
BuildLearner ==
  /\ pc = "learner"
  /\ dqn_learner' =
       Obj("learner",
           LearnerKwargs(args, LearnerNetwork(network, target_network),
                         target_network, dataset, replay_client))
  /\ calls' = Append(calls, "learner")
  /\ pc' = "checkpointer"
  /\ UNCHANGED <<args, seed, heap, replay_table, server, adder, dataset, replay_client,
                 network, epsilon, policy_network, target_network, actor,
                 checkpointer, agent>>

\* lines 174-182
BuildCheckpointer ==
  /\ pc = "checkpointer"
  /\ checkpointer' = MakeCheckpointer(args)
  /\ calls' = IF IsNone(checkpointer') THEN calls ELSE Append(calls, "Checkpointer")
  /\ pc' = "super_init"
  /\ UNCHANGED <<args, seed, heap, replay_table, server, adder, dataset,
                 replay_client, network, epsilon, policy_network, target_network,
                 actor, dqn_learner, agent>>

\* lines 184-189
SuperInit ==
  /\ pc = "super_init"
  /\ agent' =
       Obj("Agent",
           [ actor |-> actor, learner |-> dqn_learner,
             min_observations |-> MinObservations(args),
             observations_per_step |-> ObservationsPerStep(args) ])
  /\ calls' = Append(calls, "Agent.__init__")
  /\ pc' = "ready"
  /\ UNCHANGED <<args, seed, heap, replay_table, server, adder, dataset,
                 replay_client, network, epsilon, policy_network, target_network,
                 actor, dqn_learner, checkpointer>>

\* lines 191-194: update(); the base update may raise, may find nothing to do
\* yet, or may step the learner; the save may raise
Update ==
  /\ pc = "ready"
  /\ Count(calls, {"update"}) < MaxUpdates
  /\ \E base \in BaseOutcomes, save \in SaveOutcomes :
       /\ heap' = IF base = "step"
                  THEN LearnerStep(heap, Fields(dqn_learner).network)
                  ELSE heap
       /\ calls' = calls \o UpdateCalls(checkpointer, base, save)
  /\ UNCHANGED <<args, seed, pc, replay_table, server, adder, dataset,
                 replay_client, network, epsilon, policy_network, target_network,
                 actor, dqn_learner, checkpointer, agent>>

Next ==
  \/ BuildReplayTable
  \/ StartServer
  \/ BuildAdder
  \/ BuildDataset
  \/ BuildNetwork
  \/ BuildPolicy
  \/ CreateNetworkVariables
  \/ CreateDecoderVariables
  \/ CreateProjectorVariables
  \/ CopyTargetNetwork
  \/ BuildActor
  \/ BuildLearner
  \/ BuildCheckpointer
  \/ SuperInit
  \/ Update

Spec == Init /\ [][Next]_vars
SpecConfig == InitConfig /\ [][Next]_vars
SpecNumeric == InitNumeric /\ [][Next]_vars

----------------------------------------------------------------------------
(* Positions in __init__ *)

Steps ==
  << "replay_table", "server", "adder", "dataset", "network", "policy",
     "create_network", "create_decoder", "create_projector", "target_network",
     "actor", "learner", "checkpointer", "super_init", "ready" >>

\* the step has been executed
Done(step) == IndexOf(Steps, pc) > IndexOf(Steps, step)

SaveRequests == Count(calls, {"save", "save!"})
CompletedUpdates == Count(calls, {"return"})
CompletedBaseUpdates == Count(calls, {"Agent.update"})

----------------------------------------------------------------------------
(* C1: the agent holds a checkpointer exactly when the checkpoint argument *)
(* was true; before line 174 there is none; with checkpoint false          *)
(* self._checkpointer is None, no Checkpointer is ever constructed and no  *)
(* update() requests a save.                                               *)
C1_CheckpointerIffAsked ==
  /\ ~Done("checkpointer") =>
       IsObj(checkpointer, "unset") /\ Count(calls, {"Checkpointer", "save", "save!"}) = 0
  /\ Done("checkpointer") =>
       /\ IsObj(checkpointer, "Checkpointer") <=> args.checkpoint
       /\ IsObj(checkpointer, "Checkpointer") \/ IsNone(checkpointer)
       /\ Count(calls, {"Checkpointer"}) = (IF args.checkpoint THEN 1 ELSE 0)
       /\ ~args.checkpoint =>
            IsNone(checkpointer) /\ Count(calls, {"save", "save!"}) = 0

C1_Witness ==
  /\ ~args.checkpoint
  /\ IsNone(checkpointer)
  /\ pc = "ready"
  /\ CompletedUpdates >= 2

(* C2, as stated: the save requests are as many as the completed update() *)
(* calls, in every run.                                                     *)
C2_SavesEqualCompletedUpdates == SaveRequests = CompletedUpdates

(* C2, amended: in every update() the base update is the first call; a     *)
(* save is requested only directly after the base update of the same call  *)
(* has returned; with a checkpointer the save requests are as many as the  *)
(* update() calls whose base update returned, without one there are none.  *)
C2_SaveFollowsBaseUpdate ==
  /\ \A i \in 1 .. Len(calls) :
       /\ calls[i] = "update" =>
            i = Len(calls) \/ calls[i + 1] \in {"Agent.update", "Agent.update!"}
       /\ calls[i] \in {"save", "save!"} => i > 1 /\ calls[i - 1] = "Agent.update"
       /\ calls[i] = "Agent.update" /\ IsObj(checkpointer, "Checkpointer") =>
            i < Len(calls) /\ calls[i + 1] \in {"save", "save!"}
  /\ pc = "ready" =>
       SaveRequests = (IF IsNone(checkpointer) THEN 0 ELSE CompletedBaseUpdates)

C2_Witness ==
  /\ IsObj(checkpointer, "Checkpointer")
  /\ Count(calls, {"Agent.update!"}) >= 1
  /\ Count(calls, {"save"}) >= 1
  /\ CompletedUpdates >= 1

(* C3: once the target network is copied it is another module than the    *)
(* online network and shares no variable with it; right after the copy the *)
(* two have equal parameters; whatever the learner later writes to the     *)
(* online network, the target's parameters stay those it was copied with.  *)
C3_TargetIsDeepCopy ==
  Done("target_network") =>
    /\ target_network # network
    /\ heap[target_network].kind = heap[network].kind
    /\ VariablesOf(heap, target_network) \cap VariablesOf(heap, network) = {}
    /\ \A c \in ComponentSet :
         /\ heap[target_network].refs[c] = 0 <=> heap[network].refs[c] = 0
         /\ heap[target_network].refs[c] # 0 =>
              ParamsOf(heap, target_network)[c] = InitialValue(seed, c)
    /\ pc = "actor" => ParamsOf(heap, target_network) = ParamsOf(heap, network)

C3_Witness ==
  /\ pc = "ready"
  /\ CompletedBaseUpdates >= 1
  /\ \A c \in ComponentSet :
       ParamsOf(heap, target_network)[c] # ParamsOf(heap, network)[c]

(* C4: with a policy_network argument the actor acts with exactly that     *)
(* network, no epsilon-greedy policy is built and epsilon stays unused;    *)
(* otherwise the actor acts with an epsilon-greedy policy over the online  *)
(* network whose epsilon is the argument, or 0.05 when the argument is     *)
(* None.                                                                   *)
C4_PolicyChoice ==
  Done("actor") =>
    IF ~IsNone(args.policy_network)
    THEN /\ Fields(actor).policy_network = args.policy_network
         /\ epsilon = args.epsilon
         /\ Count(calls, {"Sequential"}) = 0
    ELSE /\ IsObj(Fields(actor).policy_network, "Sequential")
         /\ Fields(Fields(actor).policy_network).network = network
         /\ Fields(Fields(actor).policy_network).epsilon =
              (IF IsNone(args.epsilon) THEN DefaultEpsilon ELSE Fields(args.epsilon))

C4_Witness ==
  /\ pc = "ready"
  /\ IsNone(args.policy_network)
  /\ ~IsNone(args.epsilon)
  /\ Fields(args.epsilon) = 0
  /\ Fields(Fields(actor).policy_network).epsilon = 0

(* C5: every hyperparameter reaches the framework object it configures     *)
(* with the value the caller gave; the adder and the learner get the same  *)
(* discount.                                                               *)
C5_PassThrough ==
  /\ Done("replay_table") =>
       /\ Fields(Fields(replay_table).sampler).priority_exponent = args.priority_exponent
       /\ Fields(replay_table).max_size = args.max_replay_size
  /\ Done("adder") =>
       /\ Fields(adder).n_step = args.n_step
       /\ Fields(adder).discount = args.discount
  /\ Done("dataset") =>
       /\ Fields(dataset).batch_size = args.batch_size
       /\ Fields(dataset).prefetch_size = args.prefetch_size
  /\ Done("learner") =>
       /\ Fields(dqn_learner).discount = args.discount
       /\ Fields(dqn_learner).discount = Fields(adder).discount
       /\ Fields(dqn_learner).importance_sampling_exponent =
            args.importance_sampling_exponent
       /\ Fields(dqn_learner).learning_rate = args.learning_rate
       /\ Fields(dqn_learner).target_update_period = args.target_update_period
       /\ Fields(dqn_learner).logger = args.logger
       /\ Fields(dqn_learner).checkpoint = args.checkpoint
       /\ Fields(dqn_learner).wandb = args.wandb
       /\ Fields(dqn_learner).beta = args.beta

C5_Witness ==
  /\ pc = "ready"
  /\ args.discount = AltArgs.discount
  /\ args.learning_rate = DefaultArgs.learning_rate
  /\ args.n_step = AltArgs.n_step
  /\ args.checkpoint = AltArgs.checkpoint
  /\ Fields(dqn_learner).discount = AltArgs.discount
  /\ Fields(adder).discount = AltArgs.discount

(* C6: the agent's min_observations is the larger of batch_size and        *)
(* min_replay_size, so it is below neither.                                *)
C6_MinObservations ==
  Done("super_init") =>
    /\ Fields(agent).min_observations >= args.min_replay_size
    /\ Fields(agent).min_observations >= args.batch_size
    /\ Fields(agent).min_observations \in {args.min_replay_size, args.batch_size}

C6_Witness ==
  /\ pc = "ready"
  /\ args.batch_size > args.min_replay_size
  /\ Fields(agent).min_observations = args.batch_size

(* C7: one online network is constructed; self.network, the network of     *)
(* the default epsilon-greedy policy and the learner's network are the     *)
(* same object, so the three always show the same parameters; the target   *)
(* network is the only other network object.                               *)
C7_OneOnlineNetwork ==
  /\ Count(calls, {"QNetworkWithEncoder"}) <= 1
  /\ Done("network") => heap[network].kind = "QNetworkWithEncoder"
  /\ Done("actor") /\ IsNone(args.policy_network) =>
       Fields(Fields(actor).policy_network).network = network
  /\ Done("learner") =>
       /\ Fields(dqn_learner).network = network
       /\ Fields(dqn_learner).target_network = target_network
       /\ Fields(dqn_learner).target_network # Fields(dqn_learner).network
       /\ { i \in 1 .. Len(heap) : heap[i].kind = "QNetworkWithEncoder" }
            = {network, target_network}
       /\ IsNone(args.policy_network) =>
            ParamsOf(heap, Fields(Fields(actor).policy_network).network)
              = ParamsOf(heap, Fields(dqn_learner).network)

C7_Witness ==
  /\ pc = "ready"
  /\ IsNone(args.policy_network)
  /\ CompletedBaseUpdates >= 1
  /\ ParamsOf(heap, Fields(Fields(actor).policy_network).network)
       # ParamsOf(heap, target_network)

(* C8, as stated: observations_per_step * samples_per_insert = batch_size. *)
C8_ProductIsBatchSize ==
  Done("super_init") =>
    FloatMul(Fields(agent).observations_per_step, args.samples_per_insert)
      = FromInt(args.batch_size)

(* C8, amended: observations_per_step is the float quotient of batch_size  *)
(* by samples_per_insert; multiplied back by samples_per_insert it gives   *)
(* batch_size or a float next to it, and batch_size itself whenever the    *)
(* quotient is a float exactly.                                            *)
C8_ProductWithinOneUlp ==
  Done("super_init") =>
    \E back \in {FloatMul(Fields(agent).observations_per_step, args.samples_per_insert)},
       b \in {FromInt(args.batch_size)} :
      \/ back = b
      \/ /\ back = FloatPred(b) \/ back = FloatSucc(b)
         /\ ~ExactQuotient(args.batch_size, args.samples_per_insert)

C8_Witness ==
  /\ pc = "ready"
  /\ ~ExactQuotient(args.batch_size, args.samples_per_insert)
  /\ FloatMul(Fields(agent).observations_per_step, args.samples_per_insert)
       # FromInt(args.batch_size)

(* C9: the replay table has a prioritized sampler with the given exponent, *)
(* a first-in-first-out remover and a MinSize rate limiter whose minimum   *)
(* size is 1 whatever min_replay_size, batch_size and samples_per_insert   *)
(* are; the pacing values go to the agent instead.                         *)
C9_RateLimiterIsMinSizeOne ==
  /\ Done("replay_table") =>
       /\ IsObj(Fields(replay_table).sampler, "Prioritized")
       /\ Fields(Fields(replay_table).sampler).priority_exponent = args.priority_exponent
       /\ IsObj(Fields(replay_table).remover, "Fifo")
       /\ IsObj(Fields(replay_table).rate_limiter, "MinSize")
       /\ Fields(Fields(replay_table).rate_limiter).min_size_to_sample = 1
  /\ Done("super_init") =>
       /\ Fields(agent).min_observations >= args.min_replay_size
       /\ Fields(agent).min_observations
            >= Fields(Fields(replay_table).rate_limiter).min_size_to_sample

C9_Witness ==
  /\ pc = "ready"
  /\ args.min_replay_size > 1
  /\ args.batch_size > 1
  /\ args.samples_per_insert.num > 1
  /\ Fields(Fields(replay_table).rate_limiter).min_size_to_sample = 1
  /\ Fields(agent).min_observations > 1

(* C10: every create_variables call precedes the deep copy and the         *)
(* construction of the actor and the learner; when the copy is made the    *)
(* online network's and its decoder's variables exist, and the projector's *)
(* exactly when encoder_type is truthy; with an empty or None encoder_type *)
(* neither the online nor the target network has projector variables.      *)
CreateCalls ==
  {"create_variables:net", "create_variables:decoder", "create_variables:projector"}

====
